---- MODULE Spec2Model ----
(***************************************************************************)
(* Model of the harp string detection pipeline (backend/inference.py).     *)
(*                                                                         *)
(* Units.  Times are whole milliseconds (HOLD_SEC = 0.18 s is 180),        *)
(* probabilities are whole hundredths (0.25 is 25) and frequencies are     *)
(* whole millihertz (440.00 Hz is 440000).  On these grids the float       *)
(* comparisons of the source order the values exactly as the integers do:  *)
(* float32(0.25) and float32(0.03) are compared with float32               *)
(* probabilities, and float64(float32(0.20)) is not below 0.20.            *)
(***************************************************************************)
EXTENDS Integers, Sequences, FiniteSets, TLC

VARIABLES
    pc,                \* position of run_pipeline / of the estimator harness
    use_yin_fallback,  \* argument: TRUE = hybrid mode, FALSE = default mode
    fast_mode,         \* argument: TRUE = JSON fast path, FALSE = subtitle video
    onsets,            \* raw onset times, replaced by the accepted ones (line 151)
    accepted,          \* accepted onset times of the hold filter
    last_t,            \* last accepted onset time of the hold filter
    k,                 \* position of the hold filter's loop in the raw onsets
    valid_onsets,      \* onsets whose features were collected
    fallback_segments, \* start times of the pitch windows (hybrid mode only)
    all_probs,         \* the classifier's probability vectors, one per onset
    rows,              \* detection records built so far
    yin_log,           \* per record: was the pitch estimator called, and its result
    csv_file,          \* the CSV written by DataFrame.to_csv
    json_file,         \* audio_detections.json (fast path)
    srt_file,          \* overlay.srt (full path)
    yin_in,            \* estimator harness: per-frame f0 values of the segment
    yin_out,           \* estimator harness: result of yin_string_from_segment
    srt_in,            \* timestamp harness: the time handed to srt_time
    srt_out,           \* timestamp harness: the text srt_time returned
    run_hand_detector, \* app.py: TRUE if harp_hand_detector was imported, FALSE if None
    jobs,              \* app.py: the job registry, job id -> status record
    tasks,             \* app.py: the background task of each job, with its position
    written,           \* per job: the records assigned to jobs[job_id], in order
    uuids,             \* job ids generated so far
    job_dirs,          \* upload directories on disk
    reply              \* the last HTTP reply of the server

vars == <<pc, use_yin_fallback, fast_mode, onsets, accepted, last_t, k,
          valid_onsets, fallback_segments, all_probs, rows, yin_log,
          csv_file, json_file, srt_file, yin_in, yin_out, srt_in, srt_out,
          run_hand_detector, jobs, tasks, written, uuids, job_dirs, reply>>

-----------------------------------------------------------------------------
(* Program constants *)

NUM_STRINGS == 16
THR_DEFAULT == 25
MODEL_CONF_MIN == 20
YIN_WIN_SEC == 150
HOLD_SEC == 180
FLASH_DURATION == 250
\* -1e9 seconds in the source; the model keeps the digits and counts
\* milliseconds, any value below -HOLD_SEC behaves the same for times >= 0.
LAST_T_INIT == -1000000000
\* librosa.yin(seg, fmin=90, fmax=800)
YIN_FMIN == 90000
YIN_FMAX == 800000
\* onset_detect reports frame times: hop 512 samples at 16 kHz
FRAME_MS == 32

Strings == 1..NUM_STRINGS

\* the per-string thresholds without the string 12 override
THR_ARRAY_Flat == [i \in Strings |-> 25]

THR_ARRAY == [i \in Strings |-> IF i = 12 THEN 3 ELSE 25]

HARP_STRINGS ==
    <<783990, 659250, 587330, 523250, 440000, 392000, 329630, 293660,
      261630, 220000, 196000, 164810, 146830, 130810, 110000, 98000>>

-----------------------------------------------------------------------------
(* Bounds of the model *)

MaxRaw == 3        \* raw onsets per recording
MaxFrame == 7      \* raw onsets lie on the frames 0..MaxFrame
MaxF0Len == 2      \* f0 frames per segment in the estimator harness
PitchStep == 1000  \* spacing of the dense pitch grid, in millihertz

Times == {n * FRAME_MS : n \in 0..MaxFrame}

\* the two-onset recording of the end-to-end scenario: 1.0 s and 1.05 s
ScenarioSeqs == {<<1000, 1050>>}

\* onset_detect returns frame times in non-decreasing order
RawOnsetSeqs ==
    UNION {{s \in [1..n -> Times] : \A i \in 1..(n - 1) : s[i] <= s[i + 1]}
           : n \in 0..MaxRaw}
    \cup ScenarioSeqs

Vec(base, S, v) == [i \in Strings |-> IF i \in S THEN v ELSE base]
Uniform(b) == Vec(b, {}, b)

\* probability vectors the classifier may return for an onset
ProbVectors ==
    {Uniform(26), Uniform(25), Uniform(24),
     Vec(20, {12}, 4), Vec(15, {12}, 4), Vec(20, {12}, 2), Vec(1, {12}, 3),
     Vec(1, {3, 5, 16}, 90)}

-----------------------------------------------------------------------------
(* Hold filter, lines 145-151 *)

\* a filter that only asks for a later onset, not for the hold time
HoldAccepts_NonNegative(t, last) == (t - last) >= 0

HoldAccepts(t, last) == (t - last) >= HOLD_SEC

\* a filter that remembers the last raw onset, accepted or not
HoldLast_Raw(t, last) == t

HoldLast(t, last) == IF HoldAccepts(t, last) THEN t ELSE last

HoldAccepted(acc, t, last) == IF HoldAccepts(t, last) THEN Append(acc, t) ELSE acc

-----------------------------------------------------------------------------
(* Thresholding and arbitration, lines 153 and 186-201 *)

\* the per-string thresholds used in both modes
Thr_Array(hybrid) == THR_ARRAY

\* thr = THR_ARRAY if use_yin_fallback else np.full(NUM_STRINGS, THR_DEFAULT)
Thr(hybrid) == IF hybrid THEN THR_ARRAY ELSE [i \in Strings |-> THR_DEFAULT]

\* np.argmax(probs) + 1: the first string that holds the maximum
RECURSIVE ArgMaxScan(_, _, _)
ArgMaxScan(probs, i, best) ==
    IF i > NUM_STRINGS THEN best
    ELSE ArgMaxScan(probs, i + 1, IF probs[i] > probs[best] THEN i ELSE best)

Top1(probs) == ArgMaxScan(probs, 2, 1)

Top1Prob(probs) == probs[Top1(probs)]

\* a strict comparison with the threshold
Pred_Strict(probs, thr) == [i \in Strings |-> IF probs[i] > thr[i] THEN 1 ELSE 0]

\* pred = (probs >= thr).astype(int)
Pred(probs, thr) == [i \in Strings |-> IF probs[i] >= thr[i] THEN 1 ELSE 0]

\* active = np.where(pred == 1)[0] + 1: the flagged strings in ascending order
RECURSIVE ActiveFrom(_, _)
ActiveFrom(pred, i) ==
    IF i > NUM_STRINGS THEN <<>>
    ELSE (IF pred[i] = 1 THEN <<i>> ELSE <<>>) \o ActiveFrom(pred, i + 1)

\* an active set that leaves out the first string
Active_SkipFirst(pred) == ActiveFrom(pred, 2)
Active(pred) == ActiveFrom(pred, 1)

\* a fallback that needs both conditions
FallbackNeeded_Both(hybrid, top1_prob, active) ==
    hybrid /\ ((top1_prob < MODEL_CONF_MIN) /\ (Len(active) = 0))

\* use_yin_fallback and ((top1_prob < MODEL_CONF_MIN) or (len(active) == 0))
FallbackNeeded(hybrid, top1_prob, active) ==
    hybrid /\ ((top1_prob < MODEL_CONF_MIN) \/ (Len(active) = 0))

-----------------------------------------------------------------------------
(* Pitch fallback estimator, lines 104-112.  A frame of librosa.yin's       *)
(* output is [fin |-> is it finite, v |-> its value in millihertz].         *)

Abs(x) == IF x < 0 THEN -x ELSE x

Frame(v) == [fin |-> TRUE, v |-> v]
NaNFrame == [fin |-> FALSE, v |-> 0]

\* f0 = f0[np.isfinite(f0)]; f0 = f0[f0 > 0]
RECURSIVE Voiced(_)
Voiced(f0) ==
    IF f0 = <<>> THEN <<>>
    ELSE (IF Head(f0).fin /\ Head(f0).v > 0 THEN <<Head(f0).v>> ELSE <<>>)
         \o Voiced(Tail(f0))

RECURSIVE Insert(_, _)
Insert(x, s) ==
    IF s = <<>> THEN <<x>>
    ELSE IF x <= Head(s) THEN <<x>> \o s
    ELSE <<Head(s)>> \o Insert(x, Tail(s))

RECURSIVE SortAsc(_)
SortAsc(s) == IF s = <<>> THEN <<>> ELSE Insert(Head(s), SortAsc(Tail(s)))

\* np.median: the middle value, or the mean of the two middle values
Median(s) ==
    LET n == Len(s)
        o == SortAsc(s)
    IN  IF n % 2 = 1 THEN o[(n + 1) \div 2]
        ELSE (o[n \div 2] + o[(n \div 2) + 1]) \div 2

PitchDist(i, pitch) == Abs(HARP_STRINGS[i] - pitch)

\* np.argmin(np.abs(FREQS - pitch)): the first index that holds the minimum
RECURSIVE ArgMinScan(_, _, _)
ArgMinScan(pitch, i, best) ==
    IF i > NUM_STRINGS THEN best
    ELSE ArgMinScan(pitch, i + 1,
                    IF PitchDist(i, pitch) < PitchDist(best, pitch) THEN i ELSE best)

\* the scan without np.abs: the most negative difference wins
RECURSIVE ArgMinSigned(_, _, _)
ArgMinSigned(pitch, i, best) ==
    IF i > NUM_STRINGS THEN best
    ELSE ArgMinSigned(pitch, i + 1,
                      IF HARP_STRINGS[i] - pitch < HARP_STRINGS[best] - pitch
                      THEN i ELSE best)

NearestString_NoAbs(pitch) == ArgMinSigned(pitch, 2, 1)

\* string = int(np.argmin(np.abs(FREQS - pitch))) + 1
\* FREQS is float32: on the pitch grids used here the float32 differences order
\* the strings as the millihertz differences do (a pitch exactly midway between
\* 440 Hz and 392 Hz is a tie in both, and the first string wins).
NearestString(pitch) == ArgMinScan(pitch, 2, 1)

NoPitch == [ok |-> FALSE]

yin_string_from_segment(f0) ==
    LET v == Voiced(f0)
    IN  IF Len(v) = 0 THEN NoPitch
        ELSE [ok |-> TRUE, string |-> NearestString(Median(v)), pitch |-> Median(v)]

-----------------------------------------------------------------------------
(* Text conversions.  A Python str is a sequence of one-character strings. *)

DigitChars == <<"0", "1", "2", "3", "4", "5", "6", "7", "8", "9">>

\* str(n) for n >= 0
RECURSIVE StrOfInt(_)
StrOfInt(n) ==
    IF n < 10 THEN <<DigitChars[n + 1]>>
    ELSE StrOfInt(n \div 10) \o <<DigitChars[(n % 10) + 1]>>

\* ",".join(map(str, active))
RECURSIVE JoinComma(_)
JoinComma(s) ==
    IF s = <<>> THEN <<>>
    ELSE IF Len(s) = 1 THEN StrOfInt(s[1])
    ELSE StrOfInt(s[1]) \o <<",">> \o JoinComma(Tail(s))

\* ",".join(map(str, active)) if len(active) else ""
PredictedStrings(active) == IF Len(active) > 0 THEN JoinComma(active) ELSE <<>>

\* str.split(","): cur is the field being read
RECURSIVE SplitFrom(_, _)
SplitFrom(chars, cur) ==
    IF chars = <<>> THEN <<cur>>
    ELSE IF Head(chars) = "," THEN <<cur>> \o SplitFrom(Tail(chars), <<>>)
    ELSE SplitFrom(Tail(chars), Append(cur, Head(chars)))

SplitComma(chars) == SplitFrom(chars, <<>>)

DigitVal(c) == (CHOOSE d \in 1..10 : DigitChars[d] = c) - 1

\* int(s) for a string of decimal digits
RECURSIVE IntOfStr(_)
IntOfStr(s) ==
    IF Len(s) = 1 THEN DigitVal(s[1])
    ELSE 10 * IntOfStr(SubSeq(s, 1, Len(s) - 1)) + DigitVal(s[Len(s)])

\* [int(s) for s in str(row["predicted_strings"]).split(",")]
\*     if row["predicted_strings"] else []
ActiveStrs(ps) ==
    IF ps # <<>>
    THEN [i \in 1..Len(SplitComma(ps)) |-> IntOfStr(SplitComma(ps)[i])]
    ELSE <<>>

-----------------------------------------------------------------------------
(* Detection records and the emitted files, lines 194-256 *)

\* an estimator string added to the active set instead of replacing it
ArbActive_Extend(active, r) == IF r.ok THEN Append(active, r.string) ELSE active

\* lines 197-201: the estimator's string replaces the active set, or nothing does
ArbActive(active, r) == IF r.ok THEN <<r.string>> ELSE active

ArbUsed(r) == IF r.ok THEN "yin" ELSE "none"

\* lines 203-212; prob[i] and pred[i] are the fields prob_S<i> and pred_S<i>
MakeRow(t, active, probs, pred, hybrid, used) ==
    LET base == [time_sec |-> t,
                 predicted_strings |-> PredictedStrings(active),
                 top1 |-> Top1(probs),
                 top1_prob |-> Top1Prob(probs),
                 prob |-> probs,
                 pred |-> pred]
    IN  IF hybrid THEN base @@ [used |-> used] ELSE base

\* the keys of a row dict, in insertion order
ColumnsOf(row) ==
    <<"time_sec", "predicted_strings", "top1", "top1_prob">>
    \o [i \in Strings |-> "prob_S" \o ToString(i)]
    \o [i \in Strings |-> "pred_S" \o ToString(i)]
    \o (IF "used" \in DOMAIN row THEN <<"used">> ELSE <<>>)

\* pd.DataFrame(rows): the columns are the keys of the row dicts, an empty
\* list of rows makes a frame without columns
DataFrameColumns(rs) == IF rs = <<>> THEN <<>> ELSE ColumnsOf(rs[1])

NoFile == [exists |-> FALSE]

\* no request was answered yet
NoReply == [code |-> 0]

\* lines 215-218: df.to_csv writes the column names, then one line per row
CsvFile(rs, hybrid) ==
    [exists |-> TRUE,
     name |-> IF hybrid THEN "predictions_hybrid.csv" ELSE "predictions_default.csv",
     header |-> DataFrameColumns(rs),
     data |-> rs]

\* detections that all carry the top-1 probability of their onset
JsonOfRow_Top1Conf(row) ==
    LET act == ActiveStrs(row.predicted_strings)
    IN  [j \in 1..Len(act) |->
            [t |-> row.time_sec, string |-> act[j], cls |-> "audio_onset",
             conf |-> row.top1_prob]]

\* lines 224-233: the detections of one row
JsonOfRow(row) ==
    LET act == ActiveStrs(row.predicted_strings)
    IN  [j \in 1..Len(act) |->
            [t |-> row.time_sec, string |-> act[j], cls |-> "audio_onset",
             conf |-> row.prob[act[j]]]]

RECURSIVE JsonResults(_)
JsonResults(rs) ==
    IF rs = <<>> THEN <<>> ELSE JsonOfRow(Head(rs)) \o JsonResults(Tail(rs))

\* f"{n:0<w>d}" for n >= 0: zero-padded to at least w digits
RECURSIVE ZeroPad(_, _)
ZeroPad(d, w) == IF Len(d) >= w THEN d ELSE ZeroPad(<<"0">> \o d, w)

\* A time handed to srt_time is counted in fifths of a millisecond, so that
\* times finer than a millisecond exist and none lies halfway between two
\* milliseconds.

\* int(t), in whole seconds (truncation toward zero)
IntSec(t) == IF t >= 0 THEN t \div 5000 ELSE -((-t) \div 5000)

\* int(round(x * 1000)) for a fraction x of a second, 0 <= x < 1
RoundMs(x) == (x \div 5) + (IF x % 5 >= 3 THEN 1 ELSE 0)

\* lines 115-120
srt_time(t) ==
    LET h == t \div 18000000
        m == (t % 18000000) \div 300000
        sec == (t % 300000) \div 5000
        ms == RoundMs(t - 5000 * IntSec(t))
    IN  ZeroPad(StrOfInt(h), 2) \o <<":">> \o ZeroPad(StrOfInt(m), 2) \o <<":">>
        \o ZeroPad(StrOfInt(sec), 2) \o <<",">> \o ZeroPad(StrOfInt(ms), 3)

Upper(used) ==
    CASE used = "model" -> "MODEL"
      [] used = "yin" -> "YIN"
      [] used = "none" -> "NONE"

Max0(x) == IF x < 0 THEN 0 ELSE x

\* a block that starts at the onset itself
SrtBlock_NoLead(i, row, hybrid) ==
    [index |-> i,
     start_t |-> row.time_sec,
     end_t |-> row.time_sec + FLASH_DURATION,
     start |-> srt_time(5 * (row.time_sec)),
     end |-> srt_time(5 * (row.time_sec + FLASH_DURATION)),
     label |-> IF hybrid
               THEN Upper(IF "used" \in DOMAIN row THEN row.used ELSE "model")
               ELSE "t=",
     strings |-> IF row.predicted_strings # <<>> THEN row.predicted_strings
                 ELSE <<"N", "o", "n", "e">>]

\* lines 243-256: one subtitle block per row of the frame
SrtBlock(i, row, hybrid) ==
    [index |-> i,
     start_t |-> Max0(row.time_sec - 20),
     end_t |-> Max0(row.time_sec - 20) + FLASH_DURATION,
     start |-> srt_time(5 * (Max0(row.time_sec - 20))),
     end |-> srt_time(5 * (Max0(row.time_sec - 20) + FLASH_DURATION)),
     label |-> IF hybrid
               THEN Upper(IF "used" \in DOMAIN row THEN row.used ELSE "model")
               ELSE "t=",
     strings |-> IF row.predicted_strings # <<>> THEN row.predicted_strings
                 ELSE <<"N", "o", "n", "e">>]

SrtBlocks(rs, hybrid) == [i \in 1..Len(rs) |-> SrtBlock(i, rs[i], hybrid)]

-----------------------------------------------------------------------------
(* Inputs of the estimator *)

\* what librosa.yin may return for a segment inside run_pipeline
PipelineF0 ==
    {<<NaNFrame, Frame(0)>>,
     <<Frame(440000)>>,
     <<NaNFrame, Frame(110000), Frame(98000)>>}

PitchGrid ==
    {YIN_FMIN + j * PitchStep : j \in 0..((YIN_FMAX - YIN_FMIN) \div PitchStep)}

F0Frames ==
    {NaNFrame, Frame(0), Frame(90000), Frame(98000), Frame(110000),
     Frame(416000), Frame(440000), Frame(445000), Frame(513670), Frame(800000)}

YinInputs ==
    {<<Frame(p)>> : p \in PitchGrid}
    \cup UNION {[1..n -> F0Frames] : n \in 1..MaxF0Len}

-----------------------------------------------------------------------------
(* run_pipeline, lines 123-270 *)

Init ==
    /\ pc = "start"
    /\ use_yin_fallback \in BOOLEAN
    /\ fast_mode \in BOOLEAN
    /\ onsets = <<>>
    /\ accepted = <<>>
    /\ last_t = LAST_T_INIT
    /\ k = 1
    /\ valid_onsets = <<>>
    /\ fallback_segments = <<>>
    /\ all_probs = <<>>
    /\ rows = <<>>
    /\ yin_log = <<>>
    /\ csv_file = NoFile
    /\ json_file = NoFile
    /\ srt_file = NoFile
    /\ yin_in = <<>>
    /\ yin_out = NoPitch
    /\ srt_in = 0
    /\ srt_out = <<>>
    /\ run_hand_detector = TRUE
    /\ jobs = <<>>
    /\ tasks = <<>>
    /\ written = <<>>
    /\ uuids = {}
    /\ job_dirs = {}
    /\ reply = NoReply

args == <<use_yin_fallback, fast_mode>>
harness == <<yin_in, yin_out, srt_in, srt_out>>
files == <<csv_file, json_file, srt_file>>
server == <<run_hand_detector, jobs, tasks, written, uuids, job_dirs, reply>>

\* a pipeline that detects onsets without loading the classifier
Decode_SkipLoad ==
    /\ pc = "start"
    /\ pc' \in {"detect", "error"}
    /\ UNCHANGED <<args, onsets, accepted, last_t, k, valid_onsets,
                   fallback_segments, all_probs, rows, yin_log, files, harness, server>>
\* lines 134-138: ffmpeg extracts the audio, check=True raises when it fails
Decode ==
    /\ pc = "start"
    /\ pc' \in {"load", "error"}
    /\ UNCHANGED <<args, onsets, accepted, last_t, k, valid_onsets,
                   fallback_segments, all_probs, rows, yin_log, files, harness, server>>

\* line 140: load_model raises when the artifact is missing or corrupt
LoadModel ==
    /\ pc = "load"
    /\ pc' \in {"detect", "error"}
    /\ UNCHANGED <<args, onsets, accepted, last_t, k, valid_onsets,
                   fallback_segments, all_probs, rows, yin_log, files, harness, server>>

\* lines 142-146
DetectOnsets ==
    /\ pc = "detect"
    /\ \E raw \in RawOnsetSeqs : onsets' = raw
    /\ accepted' = <<>>
    /\ last_t' = LAST_T_INIT
    /\ k' = 1
    /\ pc' = "hold"
    /\ UNCHANGED <<args, valid_onsets, fallback_segments, all_probs, rows,
                   yin_log, files, harness, server>>

\* lines 147-150: one iteration of the hold filter
HoldStep ==
    /\ pc = "hold"
    /\ k <= Len(onsets)
    /\ accepted' = HoldAccepted(accepted, onsets[k], last_t)
    /\ last_t' = HoldLast(onsets[k], last_t)
    /\ k' = k + 1
    /\ UNCHANGED <<pc, args, onsets, valid_onsets, fallback_segments, all_probs,
                   rows, yin_log, files, harness, server>>

\* line 151: onsets = np.array(accepted)
HoldDone ==
    /\ pc = "hold"
    /\ k > Len(onsets)
    /\ onsets' = accepted
    /\ pc' = "features"
    /\ UNCHANGED <<args, accepted, last_t, k, valid_onsets, fallback_segments,
                   all_probs, rows, yin_log, files, harness, server>>

\* lines 163-175: one feature pair per onset, one pitch window in hybrid mode
CollectFeatures ==
    /\ pc = "features"
    /\ valid_onsets' = onsets
    /\ fallback_segments' =
          IF use_yin_fallback
          THEN [i \in 1..Len(onsets) |->
                   [from |-> onsets[i], to |-> onsets[i] + YIN_WIN_SEC]]
          ELSE <<>>
    /\ pc' = "predict"
    /\ UNCHANGED <<args, onsets, accepted, last_t, k, all_probs, rows, yin_log,
                   files, harness, server>>

\* lines 178-183: one batched call of the classifier, none without onsets
Predict ==
    /\ pc = "predict"
    /\ IF Len(valid_onsets) > 0
       THEN all_probs' \in [1..Len(valid_onsets) -> ProbVectors]
       ELSE all_probs' = <<>>
    /\ pc' = "process"
    /\ UNCHANGED <<args, onsets, accepted, last_t, k, valid_onsets,
                   fallback_segments, rows, yin_log, files, harness, server>>

\* lines 186-213: one iteration of the arbitration loop
ProcessOnset ==
    /\ pc = "process"
    /\ Len(rows) < Len(valid_onsets)
    /\ LET i == Len(rows) + 1
           t == valid_onsets[i]
           probs == all_probs[i]
           pred == Pred(probs, Thr(use_yin_fallback))
           active == Active(pred)
       IN  IF FallbackNeeded(use_yin_fallback, Top1Prob(probs), active)
           THEN \E f0 \in PipelineF0 :
                   LET r == yin_string_from_segment(f0)
                   IN  /\ rows' = Append(rows,
                              MakeRow(t, ArbActive(active, r), probs, pred,
                                      use_yin_fallback, ArbUsed(r)))
                       /\ yin_log' = Append(yin_log,
                              [called |-> TRUE, seg |-> fallback_segments[i], ret |-> r])
           ELSE /\ rows' = Append(rows,
                       MakeRow(t, active, probs, pred, use_yin_fallback, "model"))
                /\ yin_log' = Append(yin_log, [called |-> FALSE])
    /\ UNCHANGED <<pc, args, onsets, accepted, last_t, k, valid_onsets,
                   fallback_segments, all_probs, files, harness, server>>

\* lines 215-221: the frame is built and written as CSV
WriteCsv ==
    /\ pc = "process"
    /\ Len(rows) = Len(valid_onsets)
    /\ csv_file' = CsvFile(rows, use_yin_fallback)
    /\ pc' = IF fast_mode THEN "json" ELSE "srt"
    /\ UNCHANGED <<args, onsets, accepted, last_t, k, valid_onsets,
                   fallback_segments, all_probs, rows, yin_log, json_file,
                   srt_file, harness, server>>

\* lines 222-239: fast path
WriteJson ==
    /\ pc = "json"
    /\ json_file' = [exists |-> TRUE, results |-> JsonResults(rows)]
    /\ pc' = "done"
    /\ UNCHANGED <<args, onsets, accepted, last_t, k, valid_onsets,
                   fallback_segments, all_probs, rows, yin_log, csv_file,
                   srt_file, harness, server>>

\* lines 241-256: full path
WriteSrt ==
    /\ pc = "srt"
    /\ srt_file' = [exists |-> TRUE, blocks |-> SrtBlocks(rows, use_yin_fallback)]
    /\ pc' = "burn"
    /\ UNCHANGED <<args, onsets, accepted, last_t, k, valid_onsets,
                   fallback_segments, all_probs, rows, yin_log, csv_file,
                   json_file, harness, server>>

\* lines 259-270: ffmpeg burns the subtitles, check=True raises when it fails
BurnVideo ==
    /\ pc = "burn"
    /\ pc' \in {"done", "error"}
    /\ UNCHANGED <<args, onsets, accepted, last_t, k, valid_onsets,
                   fallback_segments, all_probs, rows, yin_log, files, harness, server>>

Next ==
    \/ Decode
    \/ LoadModel
    \/ DetectOnsets
    \/ HoldStep
    \/ HoldDone
    \/ CollectFeatures
    \/ Predict
    \/ ProcessOnset
    \/ WriteCsv
    \/ WriteJson
    \/ WriteSrt
    \/ BurnVideo

Spec == Init /\ [][Next]_vars

-----------------------------------------------------------------------------
(* The estimator alone: yin_string_from_segment applied to a segment's f0 *)

InitYin ==
    /\ pc = "yin_call"
    /\ use_yin_fallback = TRUE
    /\ fast_mode = FALSE
    /\ onsets = <<>>
    /\ accepted = <<>>
    /\ last_t = LAST_T_INIT
    /\ k = 1
    /\ valid_onsets = <<>>
    /\ fallback_segments = <<>>
    /\ all_probs = <<>>
    /\ rows = <<>>
    /\ yin_log = <<>>
    /\ csv_file = NoFile
    /\ json_file = NoFile
    /\ srt_file = NoFile
    /\ yin_in \in YinInputs
    /\ yin_out = NoPitch
    /\ srt_in = 0
    /\ srt_out = <<>>
    /\ run_hand_detector = TRUE
    /\ jobs = <<>>
    /\ tasks = <<>>
    /\ written = <<>>
    /\ uuids = {}
    /\ job_dirs = {}
    /\ reply = NoReply

YinCall ==
    /\ pc = "yin_call"
    /\ yin_out' = yin_string_from_segment(yin_in)
    /\ pc' = "yin_ret"
    /\ UNCHANGED <<args, onsets, accepted, last_t, k, valid_onsets,
                   fallback_segments, all_probs, rows, yin_log, files, yin_in, srt_in, srt_out, server>>

NextYin == YinCall

SpecYin == InitYin /\ [][NextYin]_vars

\* ---- srt_time called on its own ----
\* whole milliseconds around the carries of the second, minute and hour fields
SrtMillisGrid ==
    {0, 1, 12, 172, 250, 499, 500, 998, 999, 1000, 1001, 1999, 59998, 59999,
     60000, 3599999, 3600000, 3600001}

\* the times handed to srt_time: a millisecond of the grid plus 0 to 4 fifths
SrtInputs == {5 * ms + f : ms \in SrtMillisGrid, f \in 0..4}

InitSrt ==
    /\ pc = "srt_call"
    /\ use_yin_fallback = TRUE
    /\ fast_mode = FALSE
    /\ onsets = <<>>
    /\ accepted = <<>>
    /\ last_t = LAST_T_INIT
    /\ k = 1
    /\ valid_onsets = <<>>
    /\ fallback_segments = <<>>
    /\ all_probs = <<>>
    /\ rows = <<>>
    /\ yin_log = <<>>
    /\ csv_file = NoFile
    /\ json_file = NoFile
    /\ srt_file = NoFile
    /\ yin_in = <<>>
    /\ yin_out = NoPitch
    /\ srt_in \in SrtInputs
    /\ srt_out = <<>>
    /\ run_hand_detector = TRUE
    /\ jobs = <<>>
    /\ tasks = <<>>
    /\ written = <<>>
    /\ uuids = {}
    /\ job_dirs = {}
    /\ reply = NoReply

SrtCall ==
    /\ pc = "srt_call"
    /\ srt_out' = srt_time(srt_in)
    /\ pc' = "srt_ret"
    /\ UNCHANGED <<args, onsets, accepted, last_t, k, valid_onsets,
                   fallback_segments, all_probs, rows, yin_log, files,
                   yin_in, yin_out, srt_in, server>>

NextSrt == SrtCall

SpecSrt == InitSrt /\ [][NextSrt]_vars

-----------------------------------------------------------------------------
(* Properties *)

SeqToSet(s) == {s[i] : i \in 1..Len(s)}

Spaced(s) ==
    \A j \in 1..(Len(s) - 1) : s[j] < s[j + 1] /\ s[j + 1] - s[j] >= HOLD_SEC

RowTimes == [i \in 1..Len(rows) |-> rows[i].time_sec]

\* the active set of record i, read back from its predicted_strings field
RowActive(i) == ActiveStrs(rows[i].predicted_strings)

\* the classifier alone: strings at or above their threshold, top-1 below the floor
OverThr(probs, thr) == {s \in Strings : probs[s] >= thr[s]}
BelowFloor(probs) == \A s \in Strings : probs[s] < MODEL_CONF_MIN

\* C1: the accepted onsets are strictly increasing and consecutive ones are at
\* least HOLD_SEC apart, in the filter's list, in the onsets handed on and in
\* the records.
C1_HoldSpacing ==
    /\ Spaced(accepted)
    /\ (pc # "hold" => Spaced(onsets))
    /\ Spaced(RowTimes)

C1_Witness ==
    /\ pc = "hold"
    /\ k > Len(onsets)
    /\ Len(onsets) = 3
    /\ Len(accepted) = 2

\* C2: the hold filter is one left-to-right greedy pass: each step looks at the
\* next raw onset and accepts it iff it is the first or at least HOLD_SEC after
\* the last accepted onset; raw onsets 1.0 s and 1.05 s yield the onset 1.0 s.
C2_GreedyLastAccepted ==
    [][/\ HoldStep =>
            /\ k' = k + 1
            /\ (k = 1 => accepted' = <<onsets[1]>>)
            /\ IF accepted = <<>> \/ onsets[k] - accepted[Len(accepted)] >= HOLD_SEC
               THEN accepted' = Append(accepted, onsets[k])
               ELSE accepted' = accepted
       /\ (HoldDone /\ onsets = <<1000, 1050>>) => onsets' = <<1000>>]_vars

C2_Witness ==
    /\ pc = "hold"
    /\ onsets = <<1000, 1050>>
    /\ k = 3
    /\ accepted = <<1000>>

C4_ExhaustionEmpty ==
    use_yin_fallback =>
        \A i \in 1..Len(rows) :
            (yin_log[i].called /\ ~yin_log[i].ret.ok) =>
                rows[i].predicted_strings = <<>> /\ rows[i].used = "none"

\* C5: in hybrid mode a record whose fallback returned a pitch has exactly the
\* estimator's string as its active set, whatever the thresholds gave.
C5_FallbackReplaces ==
    use_yin_fallback =>
        \A i \in 1..Len(rows) :
            (yin_log[i].called /\ yin_log[i].ret.ok) =>
                RowActive(i) = <<yin_log[i].ret.string>>

C5_Witness ==
    /\ use_yin_fallback
    /\ \E i \in 1..Len(rows) :
          /\ yin_log[i].called
          /\ yin_log[i].ret.ok
          /\ OverThr(rows[i].prob, THR_ARRAY) # {}
          /\ yin_log[i].ret.string \notin OverThr(rows[i].prob, THR_ARRAY)

\* C6: in default mode the estimator is never called, every record's active
\* set is the set of strings with probability >= 0.25, and no record and no
\* CSV header has a "used" field.
C6_DefaultModelOnly ==
    ~use_yin_fallback =>
        /\ \A i \in 1..Len(rows) :
              /\ ~yin_log[i].called
              /\ SeqToSet(RowActive(i)) = {s \in Strings : rows[i].prob[s] >= THR_DEFAULT}
              /\ Len(RowActive(i)) = Cardinality(SeqToSet(RowActive(i)))
              /\ "used" \notin DOMAIN rows[i]
        /\ fallback_segments = <<>>
        /\ (csv_file.exists => "used" \notin SeqToSet(csv_file.header))

C6_Witness ==
    /\ ~use_yin_fallback
    /\ csv_file.exists
    /\ \E i \in 1..Len(rows) : rows[i].prob = Vec(15, {12}, 4)
    /\ \E i \in 1..Len(rows) : rows[i].prob = Vec(1, {3, 5, 16}, 90)

\* C7: in default mode the threshold 0.25 is applied to all 16 strings and is
\* inclusive: all 0.26 and all 0.25 give every string, all 0.24 gives none.
C7_UniformThreshold ==
    ~use_yin_fallback =>
        \A i \in 1..Len(rows) :
            /\ rows[i].prob \in {Uniform(26), Uniform(25)}
                  => RowActive(i) = [s \in Strings |-> s]
            /\ rows[i].prob = Uniform(24) => RowActive(i) = <<>>

C7_Witness ==
    /\ ~use_yin_fallback
    /\ \E i \in 1..Len(rows) : rows[i].prob = Uniform(26)
    /\ \E i \in 1..Len(rows) : rows[i].prob = Uniform(24)

\* C8: string 12 at 0.04 with every other string at 0.20 gives the active set
\* {12} in hybrid mode and the empty set in default mode.
C8_String12Override ==
    \A i \in 1..Len(rows) :
        rows[i].prob = Vec(20, {12}, 4) =>
            RowActive(i) = IF use_yin_fallback THEN <<12>> ELSE <<>>

C8_Witness ==
    /\ use_yin_fallback
    /\ \E i \in 1..Len(rows) :
          rows[i].prob = Vec(20, {12}, 4) /\ rows[i].used = "model"

\* C9: the estimator's string is one whose table frequency is nearest to the
\* estimated pitch; 440.0 Hz and 445 Hz both give string 5.
C9_NearestString ==
    (pc = "yin_ret" /\ yin_out.ok) =>
        /\ yin_out.string \in Strings
        /\ \A s \in Strings :
              Abs(HARP_STRINGS[yin_out.string] - yin_out.pitch)
                  <= Abs(HARP_STRINGS[s] - yin_out.pitch)
        /\ (yin_out.pitch \in {440000, 445000} => yin_out.string = 5)

C9_Witness ==
    /\ pc = "yin_ret"
    /\ yin_in = <<Frame(445000)>>
    /\ yin_out.ok
    /\ yin_out.string = 5

\* C10: a run with no accepted onset writes a CSV with a header row and no
\* data rows, and on the fast path a JSON file holding an empty array.
C10_EmptyResult ==
    (pc \in {"json", "srt", "burn", "done"} /\ Len(valid_onsets) = 0) =>
        /\ csv_file.exists
        /\ Len(csv_file.header) > 0
        /\ csv_file.data = <<>>
        /\ (pc = "done" /\ fast_mode => json_file.exists /\ json_file.results = <<>>)

\* the active set the arbitration of record i decided on
DecidedActive(i) ==
    IF yin_log[i].called /\ yin_log[i].ret.ok
    THEN {yin_log[i].ret.string}
    ELSE OverThr(all_probs[i], Thr(use_yin_fallback))

\* C11: the fast-path JSON holds one object per (onset, active string) pair and
\* nothing else, in onset order; each object's string is in 1..16 and its conf
\* is the classifier's probability of that string for that onset.
C11_JsonPerActiveString ==
    json_file.exists =>
        LET res == json_file.results
        IN  /\ \A n \in 1..Len(res) :
                  /\ res[n].string \in Strings
                  /\ \E i \in 1..Len(valid_onsets) :
                        /\ res[n].t = valid_onsets[i]
                        /\ res[n].string \in DecidedActive(i)
                        /\ res[n].conf = all_probs[i][res[n].string]
            /\ \A i \in 1..Len(valid_onsets) :
                  \A s \in DecidedActive(i) :
                      Cardinality({n \in 1..Len(res) :
                          res[n].t = valid_onsets[i] /\ res[n].string = s}) = 1
            /\ \A n \in 1..(Len(res) - 1) : res[n].t <= res[n + 1].t

C11_Witness ==
    /\ json_file.exists
    /\ Len(valid_onsets) = 2
    /\ Cardinality(DecidedActive(1)) = 3
    /\ yin_log[2].called
    /\ yin_log[2].ret.ok
    /\ Len(json_file.results) = 4

\* C12: the CSV has one row per accepted onset, in onset order, its
\* predicted_strings is empty exactly when the record's active set is empty,
\* and it has the used column exactly in hybrid mode.
C12_CsvRowPerOnset ==
    csv_file.exists =>
        /\ Len(csv_file.data) = Len(onsets)
        /\ \A i \in 1..Len(onsets) :
              /\ csv_file.data[i].time_sec = onsets[i]
              /\ (csv_file.data[i].predicted_strings = <<>>) <=> (DecidedActive(i) = {})
        /\ ("used" \in SeqToSet(csv_file.header)) <=> use_yin_fallback

\* the subtitle timestamp hh:mm:ss,mmm read back as milliseconds
SrtMillis(c) ==
    3600000 * IntOfStr(SubSeq(c, 1, 2)) + 60000 * IntOfStr(SubSeq(c, 4, 5))
    + 1000 * IntOfStr(SubSeq(c, 7, 8)) + IntOfStr(SubSeq(c, 10, 12))

\* C13 as stated: the overlay has one block per onset, numbered from 1 in onset
\* order, and each block's window starts 0.02 s before the onset and lasts
\* 0.25 s, also for onsets earlier than 0.02 s.
C13_WindowBeforeOnset ==
    srt_file.exists =>
        /\ Len(srt_file.blocks) = Len(onsets)
        /\ \A i \in 1..Len(onsets) :
              /\ srt_file.blocks[i].index = i
              /\ srt_file.blocks[i].start_t = onsets[i] - 20
              /\ srt_file.blocks[i].end_t = onsets[i] - 20 + 250

\* C13 amended: the window starts 0.02 s before the onset, but not before time
\* 0, and lasts 0.25 s from that start.
C13_WindowClamped ==
    srt_file.exists =>
        /\ Len(srt_file.blocks) = Len(onsets)
        /\ \A i \in 1..Len(onsets) :
              LET from == IF onsets[i] < 20 THEN 0 ELSE onsets[i] - 20
              IN  /\ srt_file.blocks[i].index = i
                  /\ Len(srt_file.blocks[i].start) = 12
                  /\ SrtMillis(srt_file.blocks[i].start) = from
                  /\ SrtMillis(srt_file.blocks[i].end) = from + 250

C13_Witness ==
    /\ srt_file.exists
    /\ Len(srt_file.blocks) = 2
    /\ onsets[1] = 0
    /\ srt_file.blocks[2].start = <<"0", "0", ":", "0", "0", ":", "0", "0", ",", "1", "7", "2">>

\* ---------------------------------------------------------------------
\* Job orchestration (src/backend/app.py)
\*
\* An optional value (Python None or a value) is the empty sequence or a
\* one-element sequence.  A path is the job directory and the file name.
\* ---------------------------------------------------------------------

\* ids that uuid4 can return
JobIds == {"j1", "j2"}

\* largest number of lines of a result table
MaxRows == 1

None == <<>>
Some(x) == <<x>>

Path(id, name) == [dir |-> id, name |-> name]

\* str.lower() on the strings the requests carry
Lower(s) ==
    CASE s = "HAND" -> "hand"
      [] s = "Hybrid" -> "hybrid"
      [] s = ".MOV" -> ".mov"
      [] s = ".KERAS" -> ".keras"
      [] s = ".PT" -> ".pt"
      [] OTHER -> s

VideoSuffixes == {".mp4", ".mov", ".mkv", ".avi", ".webm"}
MethodNames == {"audio", "hand", "both"}

\* the request fields a client can send
Methods == {"audio", "HAND", "both", "video"}
VideoExts == {".mp4", ".MOV", ".txt"}
ModelFiles == {None, Some(".KERAS"), Some(".h5")}
WeightsFiles == {None, Some(".PT"), Some(".onnx")}
Modes == {"Hybrid", "default"}

IsKeras(model) == model # None /\ Lower(model[1]) = ".keras"
IsPt(weights) == weights # None /\ Lower(weights[1]) = ".pt"

\* the weights files the server looks for on disk
DEFAULT_WEIGHTS == Path("weights", "best.pt")
FALLBACK_WEIGHTS == Path("project_root", "best.pt")

\* weights_path of a request that uploads no .pt file
StoredWeights(default_exists, fallback_exists) ==
    IF default_exists THEN Some(DEFAULT_WEIGHTS)
    ELSE IF fallback_exists THEN Some(FALLBACK_WEIGHTS)
    ELSE None

\* ---- status records ----
QueuedRecord == [status |-> "queued"]

\* a record that keeps the status of the registration
RunningRecord_Queued(msg) == [status |-> "queued", message |-> msg]
RunningRecord(msg) == [status |-> "running", message |-> msg]

\* a failure reported as still running
ErrorRecord_Running(msg) == [status |-> "running", message |-> msg]
ErrorRecord(msg) == [status |-> "error", message |-> msg]

SubResult(csv, video, n) == [csv_path |-> csv, video_path |-> video, rows |-> n]

\* a done record written without its row count
DoneRecord_NoRows(csv, video, n) ==
    [status |-> "done", csv_path |-> csv, video_path |-> video]
DoneRecord(csv, video, n) ==
    [status |-> "done", csv_path |-> csv, video_path |-> video, rows |-> n]

\* a record that drops the audio sub-result when the hand pass fails
HandFailedRecord_NoAudio(audio_result, msg) ==
    [status |-> "done", hand |-> None, hand_error |-> msg]
HandFailedRecord(audio_result, msg) ==
    [status |-> "done", audio |-> audio_result, hand |-> None,
     hand_error |-> msg]

BothRecord(audio_result, hand_result, combined_result, combined_error) ==
    [status |-> "done", audio |-> audio_result,
     hand |-> Some(hand_result), combined |-> combined_result,
     combined_error |-> combined_error]

NoDetectorHand == "Hand detector not available (harp_hand_detector not found)."
NoDetectorBoth == "Hand detector not available (install ultralytics, mediapipe, opencv-python and put best.pt in backend/weights/)."

\* ---- the stages a worker calls ----
\* run_pipeline returns (csv_path, video_path, df) or raises
PipelineOutcomes(id, use_yin) ==
    {[ok |-> FALSE, message |-> "run_pipeline raised"]}
    \cup {[ok |-> TRUE,
           result |-> SubResult(
               Path(id, IF use_yin THEN "predictions_hybrid.csv"
                                   ELSE "predictions_default.csv"),
               Path(id, "video_labeled.mp4"), n)] : n \in {0, MaxRows}}

\* rows of the hand table: its lines without the header, 0 if it is no file
HandRows(csv_lines) ==
    IF csv_lines = None THEN 0 ELSE Max0(csv_lines[1] - 1)

\* run_hand_detector returns (csv_path, video_path) or raises
HandOutcomes(id) ==
    {[ok |-> FALSE, message |-> "run_hand_detector raised"]}
    \cup {[ok |-> TRUE,
           result |-> SubResult(Path(id, "hand.csv"), Path(id, "hand.mp4"),
                                HandRows(lines))] :
            lines \in {None, Some(0), Some(MaxRows)}}

\* what the merge step finds: the files on disk and the transcoder's exit
MergeOutcomes ==
    {"no_srt", "no_hand_video", "ffmpeg_error", "exception", "not_created", "ok"}

\* a merge that reports a result although the output was not created
CombinedResult_Always(id, m) == Some([video_path |-> Path(id, "video_combined.mp4")])
CombinedResult(id, m) ==
    IF m = "ok" THEN Some([video_path |-> Path(id, "video_combined.mp4")])
    ELSE None

CombinedError(m) ==
    CASE m = "no_srt" -> Some("SRT file not found")
      [] m = "no_hand_video" -> Some("Hand video not found")
      [] m = "ffmpeg_error" -> Some("FFmpeg error")
      [] m = "exception" -> Some("Error creating combined video")
      [] m = "not_created" -> Some("Combined video file was not created")
      [] m = "ok" -> None

\* ---- background tasks ----
Task(fn, params) ==
    [fn |-> fn, args |-> params, pc |-> "start",
     audio_result |-> None, hand_result |-> None, stages |-> <<>>]

\* a task whose function returned: its frame is gone
Finished(task, stages) ==
    [fn |-> task.fn, pc |-> "end", stages |-> stages]

AudioArgs(id, mode) ==
    [model_path |-> Path(id, "model.keras"), video_path |-> Path(id, "video.mp4"),
     use_yin_fallback |-> (Lower(mode) = "hybrid")]

HandArgs(id, weights_path) ==
    [video_path |-> Path(id, "video.mp4"), weights_path |-> weights_path]

BothArgs(id, mode, weights_path) ==
    [model_path |-> Path(id, "model.keras"), video_path |-> Path(id, "video.mp4"),
     use_yin_fallback |-> (Lower(mode) = "hybrid"),
     weights_path |-> weights_path,
     original_video_path |-> Path(id, "video.mp4")]

\* the arguments of run_job_both that the merge still reads
MergeArgs(params) == [original_video_path |-> params.original_video_path]

\* ---- upload_and_run ----
\* raise HTTPException(code, detail) before a job directory exists
Refuse(code, detail) ==
    /\ reply' = [code |-> code, detail |-> detail]
    /\ UNCHANGED <<jobs, tasks, written, uuids, job_dirs>>

\* the registry after the request that got job id `id` was served
\* a server that registers the job before it validates the request
Registered_Eager(id, queued) == (id :> QueuedRecord) @@ jobs
Registered(id, queued) ==
    IF queued THEN (id :> QueuedRecord) @@ jobs ELSE jobs

\* raise HTTPException(400, detail) after the video was saved
RefuseLate(id, detail) ==
    /\ reply' = [code |-> 400, detail |-> detail]
    /\ jobs' = Registered(id, FALSE)
    /\ uuids' = uuids \cup {id}
    /\ job_dirs' = job_dirs \cup {id}
    /\ UNCHANGED <<tasks, written>>

\* a write raised: rmtree(job_dir) and HTTPException(500, detail)
SaveFailed(id, detail) ==
    /\ reply' = [code |-> 500, detail |-> detail]
    /\ jobs' = Registered(id, FALSE)
    /\ uuids' = uuids \cup {id}
    /\ UNCHANGED <<tasks, written, job_dirs>>

\* jobs[job_id] = {"status": "queued"}; add_task; return
Enqueue(id, task) ==
    /\ reply' = [code |-> 200, job_id |-> id, status |-> "queued"]
    /\ jobs' = Registered(id, TRUE)
    /\ tasks' = (id :> task) @@ tasks
    /\ written' = (id :> <<QueuedRecord>>) @@ written
    /\ uuids' = uuids \cup {id}
    /\ job_dirs' = job_dirs \cup {id}

UploadAudio(id) ==
    \E model \in ModelFiles, mode \in Modes, saved \in BOOLEAN :
        IF ~IsKeras(model)
        THEN RefuseLate(id, "For audio detection, upload a .keras model file.")
        ELSE IF ~saved THEN SaveFailed(id, "Save model failed")
        ELSE Enqueue(id, Task("run_job_audio", AudioArgs(id, mode)))

UploadBoth(id) ==
    \E model \in ModelFiles, mode \in Modes, saved \in BOOLEAN :
        IF ~IsKeras(model)
        THEN RefuseLate(id, "For both, upload a .keras model file.")
        ELSE IF ~saved THEN SaveFailed(id, "Save model failed")
        ELSE \E weights \in WeightsFiles :
            IF IsPt(weights)
            THEN \E wsaved \in BOOLEAN :
                IF ~wsaved THEN SaveFailed(id, "Save weights failed")
                ELSE Enqueue(id, Task("run_job_both",
                         BothArgs(id, mode, Some(Path(id, "weights.pt")))))
            ELSE \E default_exists \in BOOLEAN, fallback_exists \in BOOLEAN :
                Enqueue(id, Task("run_job_both",
                    BothArgs(id, mode, StoredWeights(default_exists, fallback_exists))))

UploadHand(id) ==
    \E weights \in WeightsFiles :
        IF IsPt(weights)
        THEN \E wsaved \in BOOLEAN :
            IF ~wsaved THEN SaveFailed(id, "Save weights failed")
            ELSE Enqueue(id, Task("run_job_hand",
                     HandArgs(id, Some(Path(id, "weights.pt")))))
        ELSE \E default_exists \in BOOLEAN, fallback_exists \in BOOLEAN :
            IF StoredWeights(default_exists, fallback_exists) = None
            THEN RefuseLate(id, "For hand detection, upload a .pt weights file or place best.pt in backend/weights/ or project root.")
            ELSE Enqueue(id, Task("run_job_hand",
                     HandArgs(id, StoredWeights(default_exists, fallback_exists))))

\* POST /api/upload
Upload ==
    /\ \E method \in Methods, video \in VideoExts :
        IF Lower(video) \notin VideoSuffixes
        THEN Refuse(400, "Video must be .mp4, .mov, .mkv, .avi, or .webm")
        ELSE IF Lower(method) \notin MethodNames
        THEN Refuse(400, "method must be 'audio', 'hand', or 'both'")
        ELSE \E id \in JobIds \ uuids, saved \in BOOLEAN :
            IF ~saved THEN SaveFailed(id, "Save video failed")
            ELSE CASE Lower(method) = "audio" -> UploadAudio(id)
                   [] Lower(method) = "both" -> UploadBoth(id)
                   [] OTHER -> UploadHand(id)
    /\ UNCHANGED <<pc, args, onsets, accepted, last_t, k, valid_onsets,
                   fallback_segments, all_probs, rows, yin_log, files, harness,
                   run_hand_detector>>

\* ---- the workers ----
pipeline == <<pc, args, onsets, accepted, last_t, k, valid_onsets,
              fallback_segments, all_probs, rows, yin_log, files, harness>>

\* a write that changes the status field of the record in place
Put_InPlace(id, rec) ==
    /\ jobs' = [jobs EXCEPT ![id].status = rec.status]
    /\ written' = [written EXCEPT ![id] = Append(@, rec)]
\* a write that replaces the whole registry by the one record
Put_Alone(id, rec) ==
    /\ jobs' = (id :> rec)
    /\ written' = [written EXCEPT ![id] = Append(@, rec)]
\* jobs[job_id] = rec
Put(id, rec) ==
    /\ jobs' = [jobs EXCEPT ![id] = rec]
    /\ written' = [written EXCEPT ![id] = Append(@, rec)]

At(id, fn, where) ==
    /\ id \in DOMAIN tasks
    /\ tasks[id].fn = fn
    /\ tasks[id].pc = where

Stage(name, ok) == [stage |-> name, ok |-> ok]

\* run_job_audio up to the call of run_pipeline
AudioStart(id) ==
    /\ At(id, "run_job_audio", "start")
    /\ Put(id, RunningRecord("Processing (audio)..."))
    /\ tasks' = [tasks EXCEPT ![id].pc = "pipeline"]
    /\ reply' = NoReply
    /\ UNCHANGED <<pipeline, run_hand_detector, uuids, job_dirs>>

\* run_job_audio from the return of run_pipeline
AudioPipeline(id) ==
    /\ At(id, "run_job_audio", "pipeline")
    /\ \E out \in PipelineOutcomes(id, tasks[id].args.use_yin_fallback) :
        /\ IF out.ok
           THEN Put(id, DoneRecord(out.result.csv_path, out.result.video_path,
                                   out.result.rows))
           ELSE Put(id, ErrorRecord(out.message))
        /\ tasks' = [tasks EXCEPT ![id] = Finished(@, Append(@.stages, Stage("audio", out.ok)))]
    /\ reply' = NoReply
    /\ UNCHANGED <<pipeline, run_hand_detector, uuids, job_dirs>>

\* run_job_hand up to the call of run_hand_detector
HandStart(id) ==
    /\ At(id, "run_job_hand", "start")
    /\ IF run_hand_detector
       THEN /\ Put(id, RunningRecord("Processing (hand detection)..."))
            /\ tasks' = [tasks EXCEPT ![id].pc = "detect"]
       ELSE /\ Put(id, ErrorRecord(NoDetectorHand))
            /\ tasks' = [tasks EXCEPT ![id] = Finished(@, @.stages)]
    /\ reply' = NoReply
    /\ UNCHANGED <<pipeline, run_hand_detector, uuids, job_dirs>>

\* run_job_hand from the return of run_hand_detector
HandDetect(id) ==
    /\ At(id, "run_job_hand", "detect")
    /\ \E out \in HandOutcomes(id) :
        /\ IF out.ok
           THEN Put(id, DoneRecord(out.result.csv_path, out.result.video_path,
                                   out.result.rows))
           ELSE Put(id, ErrorRecord(out.message))
        /\ tasks' = [tasks EXCEPT ![id] = Finished(@, Append(@.stages, Stage("hand", out.ok)))]
    /\ reply' = NoReply
    /\ UNCHANGED <<pipeline, run_hand_detector, uuids, job_dirs>>

\* the hand and merge messages exchanged
BothMessage_Swapped(stage) ==
    CASE stage = "audio" -> "Processing (audio)..."
      [] stage = "hand" -> "Combining results..."
      [] stage = "merge" -> "Processing (hand)..."
\* the message of a running record of run_job_both
BothMessage(stage) ==
    CASE stage = "audio" -> "Processing (audio)..."
      [] stage = "hand" -> "Processing (hand)..."
      [] stage = "merge" -> "Combining results..."

\* run_job_both up to the call of run_pipeline
BothStart(id) ==
    /\ At(id, "run_job_both", "start")
    /\ Put(id, RunningRecord(BothMessage("audio")))
    /\ tasks' = [tasks EXCEPT ![id].pc = "pipeline"]
    /\ reply' = NoReply
    /\ UNCHANGED <<pipeline, run_hand_detector, uuids, job_dirs>>

\* run_job_both from the return of run_pipeline to the call of the detector
BothPipeline(id) ==
    /\ At(id, "run_job_both", "pipeline")
    /\ \E out \in PipelineOutcomes(id, tasks[id].args.use_yin_fallback) :
        IF ~out.ok
        THEN /\ Put(id, ErrorRecord(out.message))
             /\ tasks' = [tasks EXCEPT ![id] = Finished(@, Append(@.stages, Stage("audio", FALSE)))]
        ELSE IF ~run_hand_detector
        THEN /\ Put(id, HandFailedRecord(out.result, NoDetectorBoth))
             /\ tasks' = [tasks EXCEPT ![id] = Finished(@, Append(@.stages, Stage("audio", TRUE)))]
        ELSE /\ Put(id, RunningRecord(BothMessage("hand")))
             /\ tasks' = [tasks EXCEPT ![id].pc = "detect",
                              ![id].audio_result = Some(out.result),
                              ![id].stages = Append(@, Stage("audio", TRUE))]
    /\ reply' = NoReply
    /\ UNCHANGED <<pipeline, run_hand_detector, uuids, job_dirs>>

\* run_job_both from the return of the detector to the merge
BothDetect(id) ==
    /\ At(id, "run_job_both", "detect")
    /\ \E out \in HandOutcomes(id) :
        IF ~out.ok
        THEN /\ Put(id, HandFailedRecord(tasks[id].audio_result[1], out.message))
             /\ tasks' = [tasks EXCEPT ![id] = Finished(@, Append(@.stages, Stage("hand", FALSE)))]
        ELSE /\ Put(id, RunningRecord(BothMessage("merge")))
             /\ tasks' = [tasks EXCEPT ![id].pc = "merge",
                              ![id].args = MergeArgs(@),
                              ![id].hand_result = Some(out.result),
                              ![id].stages = Append(@, Stage("hand", TRUE))]
    /\ reply' = NoReply
    /\ UNCHANGED <<pipeline, run_hand_detector, uuids, job_dirs>>

\* run_job_both: the merge and the final record
BothMerge(id) ==
    /\ At(id, "run_job_both", "merge")
    /\ \E m \in MergeOutcomes :
        /\ Put(id, BothRecord(tasks[id].audio_result[1], tasks[id].hand_result[1],
                              CombinedResult(id, m), CombinedError(m)))
        /\ tasks' = [tasks EXCEPT ![id] = Finished(@, Append(@.stages, Stage("merge", m = "ok")))]
    /\ reply' = NoReply
    /\ UNCHANGED <<pipeline, run_hand_detector, uuids, job_dirs>>

Worker(id) ==
    \/ AudioStart(id)
    \/ AudioPipeline(id)
    \/ HandStart(id)
    \/ HandDetect(id)
    \/ BothStart(id)
    \/ BothPipeline(id)
    \/ BothDetect(id)
    \/ BothMerge(id)

\* the reply of get_status(job_id)
get_status(id) ==
    IF id \in DOMAIN jobs
    THEN [code |-> 200, body |-> jobs[id]]
    ELSE [code |-> 404, detail |-> "Job not found"]

\* GET /api/status/{job_id}
GetStatus ==
    /\ \E id \in JobIds : reply' = get_status(id)
    /\ UNCHANGED <<pipeline, run_hand_detector, jobs, tasks, written, uuids, job_dirs>>

InitJobs ==
    /\ pc = "server"
    /\ use_yin_fallback = TRUE
    /\ fast_mode = FALSE
    /\ onsets = <<>>
    /\ accepted = <<>>
    /\ last_t = LAST_T_INIT
    /\ k = 1
    /\ valid_onsets = <<>>
    /\ fallback_segments = <<>>
    /\ all_probs = <<>>
    /\ rows = <<>>
    /\ yin_log = <<>>
    /\ csv_file = NoFile
    /\ json_file = NoFile
    /\ srt_file = NoFile
    /\ yin_in = <<>>
    /\ yin_out = NoPitch
    /\ srt_in = 0
    /\ srt_out = <<>>
    /\ run_hand_detector \in BOOLEAN
    /\ jobs = <<>>
    /\ tasks = <<>>
    /\ written = <<>>
    /\ uuids = {}
    /\ job_dirs = {}
    /\ reply = NoReply

NextJobs ==
    \/ Upload
    \/ GetStatus
    \/ \E id \in JobIds : Worker(id)

SpecJobs == InitJobs /\ [][NextJobs]_vars

\* a background task that was added is run to its end by the thread pool
SpecJobsFair == SpecJobs /\ \A id \in JobIds : WF_vars(Worker(id))

\* ---------------------------------------------------------------------
\* Properties of the job orchestration
\* ---------------------------------------------------------------------

Terminal == {"done", "error"}

\* the status values written to the record of job id, in order
Statuses(id) == [i \in 1..Len(written[id]) |-> written[id][i].status]

Rank(status) ==
    CASE status = "queued" -> 0
      [] status = "running" -> 1
      [] OTHER -> 2

\* queued, then running at least once, then at most one of done and error
ThroughRunning(st) ==
    /\ st[1] = "queued"
    /\ \A i \in 2..Len(st) :
        /\ Rank(st[i - 1]) <= Rank(st[i])
        /\ st[i - 1] \notin Terminal
        /\ st[i] # "queued"
        /\ st[i] \in Terminal => st[i - 1] = "running"

\* C14 as stated: the status values written to the record of every job are
\* queued, running, then done or error; no job is done or error without
\* having been running, and no status is followed by an earlier one.
C14_RunningBeforeTerminal ==
    \A id \in DOMAIN written : ThroughRunning(Statuses(id))

\* C14 amended: the same for every job, except that a hand job run while the
\* hand detector is unavailable goes from queued to error without being
\* running.
C14_StatusOrder ==
    \A id \in DOMAIN written :
        IF tasks[id].fn = "run_job_hand" /\ ~run_hand_detector
        THEN Statuses(id) \in {<<"queued">>, <<"queued", "error">>}
        ELSE ThroughRunning(Statuses(id))

C14_Witness ==
    /\ ~run_hand_detector
    /\ \E id \in DOMAIN written :
        /\ tasks[id].fn = "run_job_hand"
        /\ Statuses(id) = <<"queued", "error">>
    /\ \E id \in DOMAIN written :
        /\ tasks[id].fn = "run_job_audio"
        /\ Statuses(id) = <<"queued", "running", "done">>

DoneShapes ==
    {{"status", "csv_path", "video_path", "rows"},
     {"status", "audio", "hand", "hand_error"},
     {"status", "audio", "hand", "combined", "combined_error"}}

CompleteRecord(r) ==
    CASE r.status = "queued" -> DOMAIN r = {"status"}
      [] r.status \in {"running", "error"} -> DOMAIN r = {"status", "message"}
      [] r.status = "done" -> DOMAIN r \in DoneShapes
      [] OTHER -> FALSE

\* the body of the reply of get_status, if the last step was one
Observed(r) == r.code = 200 /\ "body" \in DOMAIN r

\* C15: whatever the interleaving of workers and readers, a record returned
\* by get_status is a complete record (queued; running or error with a
\* message; done with all its result fields) that was written whole to the
\* registry.
C15_NoPartialRecord ==
    Observed(reply) =>
        /\ CompleteRecord(reply.body)
        /\ \E id \in DOMAIN written :
            \E i \in 1..Len(written[id]) : written[id][i] = reply.body

C15_Witness ==
    /\ Observed(reply)
    /\ reply.body.status = "running"
    /\ reply.body.message = "Combining results..."
    /\ \E id \in DOMAIN jobs : jobs[id].status = "done" /\ "rows" \in DOMAIN jobs[id]

\* the step ends the run_job_both task of job id with these stages
BothEnds(id, names, oks) ==
    /\ id \in DOMAIN tasks
    /\ tasks[id].fn = "run_job_both"
    /\ tasks[id].pc # "end"
    /\ tasks'[id].pc = "end"
    /\ [i \in 1..Len(tasks'[id].stages) |-> tasks'[id].stages[i].stage] = names
    /\ [i \in 1..Len(tasks'[id].stages) |-> tasks'[id].stages[i].ok] = oks

\* C16: when the merge step of a both job fails after the audio and hand
\* passes succeeded, the job becomes done with the audio and the hand
\* sub-results it had produced, combined null and combined_error set.
C16_MergeFailureKeepsResults ==
    [][\A id \in JobIds :
        BothEnds(id, <<"audio", "hand", "merge">>, <<TRUE, TRUE, FALSE>>) =>
            /\ jobs'[id].status = "done"
            /\ jobs'[id].audio = tasks[id].audio_result[1]
            /\ jobs'[id].hand = tasks[id].hand_result
            /\ jobs'[id].hand # None
            /\ jobs'[id].combined = None
            /\ jobs'[id].combined_error # None]_vars

C16_Witness ==
    \E id \in DOMAIN jobs :
        /\ tasks[id].fn = "run_job_both"
        /\ tasks[id].pc = "end"
        /\ Len(tasks[id].stages) = 3
        /\ ~tasks[id].stages[3].ok
        /\ jobs[id].combined_error = Some("Combined video file was not created")
        /\ jobs[id].audio.rows = 1

\* the sub-results run_pipeline can return to the task of job id
AudioResults(id) ==
    {o.result : o \in {x \in PipelineOutcomes(id, tasks[id].args.use_yin_fallback) : x.ok}}

\* C17: when the audio pass of a both job succeeded and the hand pass fails
\* (detector unavailable or raising), the final record is done and carries
\* the audio sub-result that was produced, no hand sub-result and a hand
\* error string.
C17_AudioResultKept ==
    [][\A id \in JobIds :
        (\/ BothEnds(id, <<"audio">>, <<TRUE>>)
         \/ BothEnds(id, <<"audio", "hand">>, <<TRUE, FALSE>>)) =>
            /\ jobs'[id].status = "done"
            /\ "audio" \in DOMAIN jobs'[id]
            /\ jobs'[id].audio \in AudioResults(id)
            /\ tasks[id].audio_result # None =>
                    jobs'[id].audio = tasks[id].audio_result[1]
            /\ jobs'[id].hand = None
            /\ jobs'[id].hand_error \in {NoDetectorBoth, "run_hand_detector raised"}]_vars

C17_Witness ==
    /\ run_hand_detector
    /\ \E id \in DOMAIN jobs :
        /\ tasks[id].fn = "run_job_both"
        /\ tasks[id].pc = "end"
        /\ Len(tasks[id].stages) = 2
        /\ jobs[id].hand_error = "run_hand_detector raised"
        /\ jobs[id].audio.rows = 1

\* C18: an upload answered with an input error (400) creates no job: the
\* registry is unchanged and no background task is added.
C18_RejectedCreatesNoJob ==
    [][reply'.code = 400 => jobs' = jobs /\ tasks' = tasks]_vars

C18_Witness ==
    /\ reply.code = 400
    /\ reply.detail = "For audio detection, upload a .keras model file."
    /\ DOMAIN jobs # {}
    /\ job_dirs \ DOMAIN jobs # {}

\* C19: every submitted job eventually is done or error, and a record that
\* is done or error never changes again.
C19_JobsTerminate ==
    /\ \A id \in JobIds :
        (id \in DOMAIN jobs) ~> (id \in DOMAIN jobs /\ jobs[id].status \in Terminal)
    /\ [][\A id \in DOMAIN jobs :
            jobs[id].status \in Terminal => jobs'[id] = jobs[id]]_vars

C19_Witness ==
    /\ Observed(reply)
    /\ reply.body.status = "error"
    /\ \A id \in JobIds : id \in DOMAIN jobs /\ jobs[id].status \in Terminal

BothMessages == <<"Processing (audio)...", "Processing (hand)...", "Combining results...">>
BothStages == <<"audio", "hand", "merge">>

\* the messages of the running records written for job id, in order
RunningMessages(id) ==
    LET run == SelectSeq(written[id], LAMBDA r : r.status = "running")
    IN  [i \in 1..Len(run) |-> run[i].message]

\* C20: a both job runs audio, hand, merge in this order: a stage runs only
\* after the stages before it succeeded, the running messages appear in the
\* order audio, hand, combining, and a job whose audio pass failed is error
\* without a hand pass or a merge.
C20_StageOrder ==
    \A id \in DOMAIN tasks :
        tasks[id].fn = "run_job_both" =>
            LET st == tasks[id].stages
                msgs == RunningMessages(id)
            IN  /\ Len(st) <= 3
                /\ \A i \in 1..Len(st) : st[i].stage = BothStages[i]
                /\ \A i \in 1..(Len(st) - 1) : st[i].ok
                /\ Len(msgs) <= 3
                /\ \A i \in 1..Len(msgs) : msgs[i] = BothMessages[i]
                /\ \A i \in 2..Len(msgs) : Len(st) >= i - 1 /\ st[i - 1].ok
                /\ (Len(st) >= 1 /\ ~st[1].ok) =>
                        /\ Len(st) = 1
                        /\ msgs = <<"Processing (audio)...">>
                        /\ jobs[id].status = "error"

C20_Witness ==
    /\ \E id \in DOMAIN tasks :
        /\ tasks[id].fn = "run_job_both"
        /\ Len(tasks[id].stages) = 3
        /\ tasks[id].stages[3].ok
        /\ RunningMessages(id) = BothMessages
    /\ \E id \in DOMAIN tasks :
        /\ tasks[id].fn = "run_job_both"
        /\ tasks[id].stages = <<Stage("audio", FALSE)>>
        /\ jobs[id].status = "error"

\* ---------------------------------------------------------------------
\* Further properties of run_pipeline
\* ---------------------------------------------------------------------

\* nothing of the onset processing has happened and no result file exists
NothingProcessed ==
    /\ onsets = <<>>
    /\ accepted = <<>>
    /\ valid_onsets = <<>>
    /\ fallback_segments = <<>>
    /\ all_probs = <<>>
    /\ rows = <<>>
    /\ yin_log = <<>>
    /\ csv_file = NoFile
    /\ json_file = NoFile
    /\ srt_file = NoFile

\* C21: the video is decoded before the classifier is loaded and the
\* classifier is loaded before onsets are detected; when the decoding or the
\* loading fails, no onset was detected, no feature extracted, no
\* classification made and no CSV, JSON or subtitle file written, and
\* nothing happens after the failure.
C21_FailsBeforeProcessing ==
    [][/\ (pc' # pc /\ pc' = "load") => pc = "start"
       /\ (pc' # pc /\ pc' = "detect") => pc = "load"
       /\ (pc \in {"start", "load"} /\ pc' = "error") => NothingProcessed'
       /\ pc = "error" => UNCHANGED vars]_vars

C21_Witness ==
    /\ pc = "error"
    /\ NothingProcessed

\* C23: in hybrid mode a record tagged "model" has a non-empty active set, a
\* top-1 probability of at least MODEL_CONF_MIN, and its active set is the
\* set of the strings whose pred flag is 1.
C23_ModelTagged ==
    use_yin_fallback =>
        \A i \in 1..Len(rows) :
            rows[i].used = "model" =>
                /\ RowActive(i) # <<>>
                /\ rows[i].top1_prob >= MODEL_CONF_MIN
                /\ SeqToSet(RowActive(i)) = {s \in Strings : rows[i].pred[s] = 1}
                /\ Len(RowActive(i)) = Cardinality(SeqToSet(RowActive(i)))

C23_Witness ==
    /\ use_yin_fallback
    /\ \E i \in 1..Len(rows) :
        /\ rows[i].used = "model"
        /\ Len(RowActive(i)) = 3
        /\ rows[i].pred[12] = 0

\* ---------------------------------------------------------------------
\* Further properties of the job orchestration
\* ---------------------------------------------------------------------

\* C22: a worker writes only the record of its own job and leaves the other
\* records unchanged; an entry is inserted as queued by the upload that
\* returns its id, before its task has taken a step; no entry is ever
\* removed; get_status answers 200 for every job id an upload returned.
C22_RegistryGrows ==
    /\ [](\A id \in DOMAIN written : get_status(id).code = 200)
    /\ [][/\ \A id \in DOMAIN jobs : id \in DOMAIN jobs'
          /\ \A id \in JobIds :
                Worker(id) =>
                    \A other \in DOMAIN jobs \ {id} : jobs'[other] = jobs[other]
          /\ \A id \in DOMAIN jobs' \ DOMAIN jobs :
                /\ jobs'[id] = QueuedRecord
                /\ id \notin DOMAIN tasks
                /\ tasks'[id].pc = "start"
                /\ reply' = [code |-> 200, job_id |-> id, status |-> "queued"]
          /\ (reply'.code = 200 /\ "job_id" \in DOMAIN reply') =>
                reply'.job_id \in DOMAIN jobs']_vars

C22_Witness ==
    /\ \A id \in JobIds : id \in DOMAIN jobs
    /\ \E id \in JobIds : jobs[id].status = "done" /\ "combined" \in DOMAIN jobs[id]
    /\ \E id \in JobIds : jobs[id].status = "running"
    /\ Observed(reply)

\* ---------------------------------------------------------------------
\* Downloads (src/backend/app.py, lines 309-351)
\* ---------------------------------------------------------------------

\* the type query parameter: absent, or a string
TypeKeys == {None, Some("audio"), Some("hand"), Some("combined"), Some("status")}

\* the keys of a both record whose value is a sub-result dict or None
SubResultKeys == {"audio", "hand", "combined"}

\* job.get(key)
Get(job, key) == IF key \in DOMAIN job THEN Some(job[key]) ELSE None

\* job.get(key) for a key of SubResultKeys: the dict, or None
SubResultOf(job, key) ==
    IF key \notin DOMAIN job THEN None
    ELSE IF key = "audio" THEN Some(job.audio)
    ELSE job[key]

Raised(code, detail) == [ok |-> FALSE, code |-> code, detail |-> detail]
Resolved(path, name) == [ok |-> TRUE, path |-> path, name |-> name]

KindField(kind) == IF kind = "csv" THEN "csv_path" ELSE "video_path"

\* _get_result_path(job, kind, type_key)
get_result_path(job, kind, type_key) ==
    IF "audio" \in DOMAIN job
    THEN IF type_key = Some("combined")
         THEN LET combined == SubResultOf(job, "combined")
              IN  IF combined = None
                  THEN Raised(404, "No combined video available")
                  ELSE Resolved(Some(combined[1].video_path), "harp_combined.mp4")
         ELSE IF type_key = None
         THEN Raised(400, "For this job, use ?type=audio, ?type=hand, or ?type=combined")
         ELSE LET key == type_key[1]
              IN  IF key \notin DOMAIN job \/ (key \in SubResultKeys /\ SubResultOf(job, key) = None)
                  THEN Raised(404, "No " \o key \o " result")
                  ELSE IF key \notin SubResultKeys
                  \* part is a string: part.get raises AttributeError
                  THEN Raised(500, "Internal Server Error")
                  ELSE Resolved(Some(SubResultOf(job, key)[1][KindField(kind)]),
                                "harp_" \o key \o
                                (IF kind = "csv" THEN "_predictions.csv" ELSE "_video.mp4"))
    ELSE Resolved(Get(job, KindField(kind)),
                  IF kind = "csv" THEN "harp_predictions.csv" ELSE "harp_labeled.mp4")

\* a reply that serves the request although nothing was found
NotFound_Served(detail) == [code |-> 200, detail |-> detail]
\* raise HTTPException(404, detail)
NotFound(detail) == [code |-> 404, detail |-> detail]

FileResponse(path, filename, media_type) ==
    [code |-> 200, path |-> path, filename |-> filename, media_type |-> media_type]

\* download_csv (kind "csv") and download_video (kind "video"); isfile is
\* os.path.isfile(path)
download(id, kind, type_key, isfile) ==
    IF id \notin DOMAIN jobs \/ Get(jobs[id], "status") # Some("done")
    THEN NotFound("Job not ready or not found")
    ELSE LET r == get_result_path(jobs[id], kind, type_key)
         IN  IF ~r.ok THEN [code |-> r.code, detail |-> r.detail]
             ELSE IF r.path = None \/ ~isfile
             THEN NotFound(IF kind = "csv" THEN "CSV not found" ELSE "Video not found")
             ELSE FileResponse(r.path[1], r.name,
                               IF kind = "csv" THEN "text/csv" ELSE "video/mp4")

\* GET /api/download/csv/{job_id}
DownloadCsv ==
    /\ \E id \in JobIds, type_key \in TypeKeys, isfile \in BOOLEAN :
        reply' = download(id, "csv", type_key, isfile)
    /\ UNCHANGED <<pipeline, run_hand_detector, jobs, tasks, written, uuids, job_dirs>>

\* GET /api/download/video/{job_id}
DownloadVideo ==
    /\ \E id \in JobIds, type_key \in TypeKeys, isfile \in BOOLEAN :
        reply' = download(id, "video", type_key, isfile)
    /\ UNCHANGED <<pipeline, run_hand_detector, jobs, tasks, written, uuids, job_dirs>>

\* the downloads are served next to one submission: the second job id stays
\* unknown to the registry
FirstUpload == uuids = {} /\ Upload

NextServe ==
    \/ FirstUpload
    \/ GetStatus
    \/ \E id \in JobIds : Worker(id)
    \/ DownloadCsv
    \/ DownloadVideo

SpecServe == InitJobs /\ [][NextServe]_vars

\* the reply serves a file
Served(r) == "path" \in DOMAIN r

\* the step answers a download of this kind for job id
DownloadStep(id, kind) ==
    /\ \E type_key \in TypeKeys, isfile \in BOOLEAN :
        reply' = download(id, kind, type_key, isfile)
    /\ UNCHANGED <<pipeline, run_hand_detector, jobs, tasks, written, uuids, job_dirs>>

\* C24: a download for an unknown job id or for a job that is queued,
\* running or error is answered 404 without a file; a file is served only
\* from the directory of a job that is done.
C24_DownloadOnlyWhenDone ==
    /\ [](Served(reply) =>
            /\ reply.path.dir \in DOMAIN jobs
            /\ jobs[reply.path.dir].status = "done")
    /\ [][\A id \in JobIds, kind \in {"csv", "video"} :
            (/\ DownloadStep(id, kind)
             /\ ~(id \in DOMAIN jobs /\ jobs[id].status = "done")) =>
                reply'.code = 404 /\ ~Served(reply')]_vars

C24_Witness ==
    /\ reply = [code |-> 404, detail |-> "Job not ready or not found"]
    /\ \E id \in DOMAIN jobs : jobs[id].status = "running"

CsvNames == {"predictions_hybrid.csv", "predictions_default.csv", "hand.csv"}

\* C25 as stated: a file served by download_csv is a CSV file and a file
\* served by download_video is a video file, for every done job and every
\* type parameter.
C25_KindMatches ==
    Served(reply) =>
        (reply.media_type = "text/csv" <=> reply.path.name \in CsvNames)

\* ---------------------------------------------------------------------
\* Properties of srt_time
\* ---------------------------------------------------------------------

\* t, in fifths of a millisecond, rounded to the nearest millisecond
NearestMs(t) == (t \div 5) + (IF t % 5 >= 3 THEN 1 ELSE 0)

\* C26: for a time t >= 0, srt_time(t) is a well-formed timestamp
\* hh:mm:ss,mmm whose millisecond field is in 0..999 and whose value is t
\* rounded to the nearest millisecond.
C26_SrtTimeExact ==
    pc = "srt_ret" =>
        /\ Len(srt_out) = 12
        /\ srt_out[3] = ":" /\ srt_out[6] = ":" /\ srt_out[9] = ","
        /\ IntOfStr(SubSeq(srt_out, 10, Len(srt_out))) \in 0..999
        /\ SrtMillis(srt_out) = NearestMs(srt_in)

====
